---- MODULE Spec2Model ----
(***************************************************************************)
(* Model of packages/snowpack/src/commands/paint.ts: the dev-server        *)
(* dashboard.  paint(bus, plugins) builds the display state, subscribes    *)
(* one handler per event and repaints the terminal from the handlers.      *)
(*                                                                         *)
(* JavaScript values are tagged records (Undefined, Null, Num, Str, Err,   *)
(* Arr) so that typeof, truthiness, `>` and Array.isArray are computed as  *)
(* the language computes them.  Worker output is a string made of the      *)
(* atoms in Atoms; no atom is a substring of a concatenation of others     *)
(* except at atom boundaries, so String.includes is contiguous             *)
(* sub-sequence.  The terminal is the sequence of process.stdout.write     *)
(* calls of the last repaint; in its texts "#" stands for the section      *)
(* marker, ">" for the separator before the address and "..." for the      *)
(* ellipsis, which are not ASCII in the source.                            *)
(***************************************************************************)
EXTENDS Integers, Sequences, FiniteSets, TLC

\* ------------------------------------------------------------- bounds ---
\* number of events emitted on the bus in one behaviour
MaxEvents == 3

\* ---------------------------------------------------------- JS values ---
Undefined == [type |-> "undefined"]
Null == [type |-> "null"]
Num(n) == [type |-> "number", n |-> n]
Str(s) == [type |-> "string", s |-> s]
Err(m) == [type |-> "object", message |-> m]
Arr(items) == [type |-> "array", items |-> items]

\* the typeof operator: always yields a string
TypeOf(v) ==
  CASE v.type = "undefined" -> Str("undefined")
    [] v.type = "number" -> Str("number")
    [] v.type = "string" -> Str("string")
    [] OTHER -> Str("object")

\* ToBoolean
Truthy(v) ==
  CASE v.type = "undefined" -> FALSE
    [] v.type = "null" -> FALSE
    [] v.type = "number" -> v.n # 0
    [] v.type = "string" -> v.s # ""
    [] OTHER -> TRUE

\* v > 0 (undefined converts to NaN, null to 0: both compare false)
GreaterThanZero(v) == v.type = "number" /\ v.n > 0

IsArray(v) == v.type = "array"

\* strict inequality a !== b
StrictNotEqual(a, b) == a # b

\* string conversion inside a template literal / string concatenation
ToStr(v) ==
  CASE v.type = "undefined" -> "undefined"
    [] v.type = "null" -> "null"
    [] v.type = "number" -> ToString(v.n)
    [] v.type = "string" -> v.s
    [] OTHER -> "[object]"

\* ------------------------------------------------------------ strings ---
Atoms == {"Found 0", "found no", " ", "errors", ".", "x", "\n"}
Whitespace == {" ", "\n"}

\* String.prototype.includes
Includes(s, sub) ==
  \E i \in 0..(Len(s) - Len(sub)) : \A j \in 1..Len(sub) : s[i + j] = sub[j]

\* index of the first non-whitespace atom at or after i (Len(s)+1 if none)
RECURSIVE TrimStart(_, _)
TrimStart(s, i) ==
  IF i > Len(s) \/ s[i] \notin Whitespace THEN i ELSE TrimStart(s, i + 1)

\* index of the last non-whitespace atom at or before i (0 if none)
RECURSIVE TrimEnd(_, _)
TrimEnd(s, i) ==
  IF i < 1 \/ s[i] \notin Whitespace THEN i ELSE TrimEnd(s, i - 1)

\* String.prototype.trim: drop the leading and trailing whitespace
Trim(s) == SubSeq(s, TrimStart(s, 1), TrimEnd(s, Len(s)))

\* s.replace(/\n/gm, '\n  '): every newline becomes newline + two spaces
Indent(s) == [i \in 1..Len(s) |-> IF s[i] = "\n" THEN "\n  " ELSE s[i]]

\* Array.prototype.join
RECURSIVE Join(_, _)
Join(lines, sep) ==
  IF lines = <<>> THEN <<>>
  ELSE IF Len(lines) = 1 THEN <<lines[1]>>
  ELSE <<lines[1], sep>> \o Join(Tail(lines), sep)

\* -------------------------------------------------------------- paths ---
\* a path is [abs, segs]; process.cwd() is "/cwd"
cwd == [abs |-> TRUE, segs |-> <<"cwd">>]

RECURSIVE Normalize(_, _)
Normalize(segs, acc) ==
  IF segs = <<>> THEN acc
  ELSE IF Head(segs) = "." THEN Normalize(Tail(segs), acc)
  ELSE IF Head(segs) = ".."
    THEN Normalize(Tail(segs),
                   IF acc = <<>> THEN <<>> ELSE SubSeq(acc, 1, Len(acc) - 1))
  ELSE Normalize(Tail(segs), Append(acc, Head(segs)))

\* path.resolve against the working directory
Resolve(p) ==
  IF p.abs THEN Normalize(p.segs, <<>>) ELSE Normalize(cwd.segs \o p.segs, <<>>)

RECURSIVE CommonLen(_, _)
CommonLen(a, b) ==
  IF a = <<>> \/ b = <<>> \/ Head(a) # Head(b) THEN 0
  ELSE 1 + CommonLen(Tail(a), Tail(b))

\* path.relative(from, to): the segments of the relative path
Relative(from, to) ==
  LET f == Resolve(from)
      t == Resolve(to)
      n == CommonLen(f, t)
  IN [i \in 1..(Len(f) - n) |-> ".."] \o SubSeq(t, n + 1, Len(t))

\* ------------------------------------------------------------- inputs ---
paintEvent ==
  [BUILD_FILE |-> "BUILD_FILE", ERROR |-> "ERROR", INFO |-> "INFO",
   NEW_SESSION |-> "NEW_SESSION", SERVER_RESPONSE |-> "SERVER_RESPONSE",
   SERVER_START |-> "SERVER_START", WARN |-> "WARN",
   WORKER_COMPLETE |-> "WORKER_COMPLETE", WORKER_MSG |-> "WORKER_MSG",
   WORKER_RESET |-> "WORKER_RESET", WORKER_UPDATE |-> "WORKER_UPDATE"]

WorkerIds == {"tsc", "svelte-check", "eslint"}

\* the plugins argument of paint()
PluginLists == {<<"tsc", "eslint">>}

\* "Found 0 errors.", "found no errors", "x\n"
Msgs ==
  {<<"Found 0", " ", "errors", ".">>, <<"found no", " ", "errors">>,
   <<"x", "\n">>}

\* state of a WORKER_UPDATE payload; Undefined is an absent field
UpdateStates == {Undefined, Arr(<<"RUNNING", "yellow">>)}

\* error of a WORKER_COMPLETE payload
CompleteErrors == {Null, Err("E1"), Err("E2")}

\* id of a BUILD_FILE payload: "/cwd/a.js", "a.js", "/cwd/src/a.ts"
BuildIds ==
  {[abs |-> TRUE, segs |-> <<"cwd", "a.js">>],
   [abs |-> FALSE, segs |-> <<"a.js">>],
   [abs |-> TRUE, segs |-> <<"cwd", "src", "a.ts">>]}

LogArgs == {"compiled", "watching"}

\* SERVER_START payloads; an absent field reads as undefined
ServerInfoA ==
  [startTimeMs |-> Num(1000), hostname |-> Str("localhost"),
   port |-> Num(8080), protocol |-> Str("http://"), ips |-> <<"192.168.1.5">>]

ServerInfoB ==
  [startTimeMs |-> Num(2000), hostname |-> Str("example.test"),
   port |-> Num(3000), protocol |-> Str("https://"),
   ips |-> <<"10.0.0.1", "192.168.1.5">>]

ServerInfos ==
  {ServerInfoA, ServerInfoB,
   [ServerInfoA EXCEPT !.startTimeMs = Undefined],
   [ServerInfoA EXCEPT !.port = Num(0)],
   [ServerInfoA EXCEPT !.protocol = Str("")]}

\* ------------------------------------------------------ display state ---
displayName == [tsc |-> "TypeScript"]

WORKER_BASE_STATE ==
  [done |-> FALSE, error |-> Null, state |-> Null, output |-> <<>>]

\* hideOutput comparing the whole output with the sentinel
hideOutput_Exact(cmd, stdout) ==
  CASE cmd = "svelte-check" -> stdout = <<"found no", " ", "errors">>
    [] cmd = "tsc" -> stdout = <<"Found 0", " ", "errors", ".">>
    [] OTHER -> FALSE

hideOutput(cmd, stdout) ==
  CASE cmd = "svelte-check" -> Includes(stdout, <<"found no", " ", "errors">>)
    [] cmd = "tsc" -> Includes(stdout, <<"Found 0", " ", "errors", ".">>)
    [] OTHER -> FALSE

VARIABLES
  port, hostname, protocol, startTimeMs, ips,  \* server variables
  consoleOutput,      \* string[]
  installOutput,      \* string
  isInstalling,       \* boolean
  allWorkerStates,    \* Record<string, WorkerState>: entries in key order
  allFileBuilds,      \* Set<string>
  screen,             \* the process.stdout.write calls of the last repaint
  plugins,            \* the plugins argument
  lastEvent,          \* the event the last handler run was for
  renders,            \* repaint() calls made by that handler run
  threw,              \* that handler run ended in a TypeError
  nEvents,            \* events emitted so far
  prev,               \* the display state before that run
  lastBuild,          \* relative path -> isBuilding of its last BUILD_FILE
  insertOrder,        \* worker ids in the order their records were created
  completed,          \* ids with a WORKER_COMPLETE since creation or reset
  serverStarts        \* payload of the last SERVER_START, if any

vars ==
  <<port, hostname, protocol, startTimeMs, ips, consoleOutput, installOutput,
    isInstalling, allWorkerStates, allFileBuilds, screen, plugins, lastEvent,
    renders, threw, nEvents, prev, lastBuild, insertOrder, completed,
    serverStarts>>

\* ----------------------------------------- Record<string, WorkerState> ---
Keys(ws) == {ws[i].key : i \in DOMAIN ws}

Has(ws, id) == id \in Keys(ws)

Get(ws, id) == ws[CHOOSE i \in DOMAIN ws : ws[i].key = id].val

\* the keys that are canonical array indices ("1", "2"), with their value
IndexKeys == [k \in {"1", "2"} |-> IF k = "1" THEN 1 ELSE 2]

IsIndexKey(k) == k \in DOMAIN IndexKeys

\* own-property order of an object: a new index key goes before b, a new
\* string key does not
KeyBefore(a, b) ==
  IsIndexKey(a) /\ (IsIndexKey(b) => IndexKeys[a] < IndexKeys[b])

\* ws[id] = rec: an existing key keeps its position; a new string key goes
\* last; a new index key goes among the index keys, which come first in
\* ascending numeric order
Put(ws, id, rec) ==
  IF Has(ws, id)
  THEN [i \in DOMAIN ws |-> IF ws[i].key = id THEN [key |-> id, val |-> rec]
                            ELSE ws[i]]
  ELSE LET n == Cardinality({i \in DOMAIN ws : ~KeyBefore(id, ws[i].key)})
       IN SubSeq(ws, 1, n) \o <<[key |-> id, val |-> rec]>>
          \o SubSeq(ws, n + 1, Len(ws))

RECURSIVE InitWorkers(_, _)
InitWorkers(list, ws) ==
  IF list = <<>> THEN ws
  ELSE InitWorkers(Tail(list), Put(ws, Head(list), WORKER_BASE_STATE))

\* setupWorker without the existence test: the record is always replaced
setupWorker_Always(ws, id) == Put(ws, id, WORKER_BASE_STATE)

setupWorker(ws, id) ==
  IF ~Has(ws, id) THEN Put(ws, id, WORKER_BASE_STATE) ELSE ws

\* ------------------------------------------------------------ repaint ---
\* one process.stdout.write call: t names the call site, of the worker a
\* worker section is drawn for, color the kleur style, v the text
Write(t, of, color, v) == [t |-> t, of |-> of, color |-> color, v |-> v]

\* displayName[script]
DisplayNameOf(script) ==
  IF script \in DOMAIN displayName THEN Str(displayName[script]) ELSE Undefined

\* '# ' + displayName[script] || script   (+ binds tighter than ||)
HeaderLabel(script) ==
  LET left == <<"# ", ToStr(DisplayNameOf(script))>>
  IN IF left # <<"", "">> THEN left ELSE <<script>>

\* the console header drawn for an empty log too
ConsoleSection_Always(co) ==
  <<Write("consoleHeader", "", "underline bold", <<"# Console", "\n\n">>),
    Write("consoleBody", "", "", Join(co, "\n  ")),
    Write("newline", "", "", <<"\n\n">>)>>

ConsoleSection(co) ==
  IF Len(co) # 0
  THEN <<Write("consoleHeader", "", "underline bold", <<"# Console", "\n\n">>),
         Write("consoleBody", "", "", Join(co, "\n  ")),
         Write("newline", "", "", <<"\n\n">>)>>
  ELSE <<>>

WorkerSection(script, workerState) ==
  IF workerState.output # <<>> /\ ~hideOutput(script, workerState.output)
  THEN <<Write("workerHeader", script,
               IF IsArray(workerState.error) THEN "red" ELSE "reset",
               HeaderLabel(script) \o <<"\n\n">>),
         Write("workerBody", script, "", Indent(Trim(workerState.output))),
         Write("newline", "", "", <<"\n\n">>)>>
  ELSE <<>>

RECURSIVE WorkerSections(_)
WorkerSections(ws) ==
  IF ws = <<>> THEN <<>>
  ELSE WorkerSection(ws[1].key, ws[1].val) \o WorkerSections(Tail(ws))

\* isServerStarted without the startTimeMs test
IsServerStarted_NoStartTime(st, p, proto) ==
  GreaterThanZero(p) /\ Truthy(proto)

IsServerStarted(st, p, proto) ==
  GreaterThanZero(st) /\ GreaterThanZero(p) /\ Truthy(proto)

\* ips[0]
FirstIp(ip) == IF Len(ip) > 0 THEN Str(ip[1]) ELSE Undefined

\* the dashboard with the indicator driven by a count above one
Dashboard_Count(builds, st, host, p, proto, ip) ==
  IF IsServerStarted(st, p, proto)
  THEN (IF Cardinality(builds) > 1
        THEN <<Write("building", "", "dim", <<" Building...">>)>> ELSE <<>>)
       \o <<Write("ready", "", "bgGreen",
                  <<" SNOWPACK ", " READY ", " ", ToStr(host), ":", ToStr(p),
                    " > ", ToStr(FirstIp(ip))>>)>>
  ELSE <<Write("loading", "", "bgYellow", <<" SNOWPACK ", " LOADING ">>)>>

Dashboard(builds, st, host, p, proto, ip) ==
  IF IsServerStarted(st, p, proto)
  THEN (IF Cardinality(builds) > 0
        THEN <<Write("building", "", "dim", <<" Building...">>)>> ELSE <<>>)
       \o <<Write("ready", "", "bgGreen",
                  <<" SNOWPACK ", " READY ", " ", ToStr(host), ":", ToStr(p),
                    " > ", ToStr(FirstIp(ip))>>)>>
  ELSE <<Write("loading", "", "bgYellow", <<" SNOWPACK ", " LOADING ">>)>>

\* the install section drawn whatever the flag
InstallSection_Always(installing, out) ==
  <<Write("installHeader", "", "underline bold",
          <<"# snowpack install", "\n\n">>),
    Write("installBody", "", "", <<"  ">> \o Indent(Trim(out))),
    Write("newline", "", "", <<"\n\n">>)>>

InstallSection(installing, out) ==
  IF installing
  THEN <<Write("installHeader", "", "underline bold",
               <<"# snowpack install", "\n\n">>),
         Write("installBody", "", "", <<"  ">> \o Indent(Trim(out))),
         Write("newline", "", "", <<"\n\n">>)>>
  ELSE <<>>

repaint(co, ws, builds, st, host, p, proto, ip, installing, out) ==
  <<Write("clear", "", "", <<>>)>>
  \o ConsoleSection(co)
  \o WorkerSections(ws)
  \o Dashboard(builds, st, host, p, proto, ip)
  \o InstallSection(installing, out)

\* what repaint() writes for the current display state
Painted ==
  repaint(consoleOutput, allWorkerStates, allFileBuilds, startTimeMs,
          hostname, port, protocol, ips, isInstalling, installOutput)

\* ----------------------------------------------------------- handlers ---
\* BUILD_FILE deleting the id as given instead of the relative path
BuildFileHandler_RawDelete(builds, id, isBuilding) ==
  IF isBuilding THEN builds \cup {Relative(cwd, id)}
  ELSE builds \ {id.segs}

BuildFileHandler(builds, id, isBuilding) ==
  IF isBuilding THEN builds \cup {Relative(cwd, id)}
  ELSE builds \ {Relative(cwd, id)}

\* WORKER_MSG assigning the message instead of appending it
WorkerMsgHandler_Assign(ws, id, msg) ==
  LET ws1 == setupWorker(ws, id)
  IN Put(ws1, id, [Get(ws1, id) EXCEPT !.output = msg])

WorkerMsgHandler(ws, id, msg) ==
  LET ws1 == setupWorker(ws, id)
  IN Put(ws1, id, [Get(ws1, id) EXCEPT !.output = @ \o msg])

\* WORKER_UPDATE marking the worker as running again
WorkerUpdateHandler_Undone(ws, id, state) ==
  LET ws1 == setupWorker(ws, id)
  IN Put(ws1, id, [Get(ws1, id) EXCEPT !.state = state, !.done = FALSE])

WorkerUpdateHandler(ws, id, state) ==
  IF StrictNotEqual(TypeOf(state), Undefined)
  THEN LET ws1 == setupWorker(ws, id)
       IN Put(ws1, id, [Get(ws1, id) EXCEPT !.state = state])
  ELSE ws

\* allWorkerStates[id].error || error
\* the error assignment without the guard: the last error wins
FirstError_Overwrite(old, error) == error

FirstError(old, error) == IF Truthy(old) THEN old ELSE error

\* WORKER_COMPLETE marking every worker as done
WorkerCompleteHandler_All(ws, id, error) ==
  LET r1 == [Get(ws, id) EXCEPT !.state = Arr(<<"DONE", "green">>)]
      r2 == [r1 EXCEPT !.done = TRUE]
      ws1 == Put(ws, id, [r2 EXCEPT !.error = FirstError(r2.error, error)])
  IN [i \in DOMAIN ws1 |->
        [key |-> ws1[i].key, val |-> [ws1[i].val EXCEPT !.done = TRUE]]]

WorkerCompleteHandler(ws, id, error) ==
  LET r1 == [Get(ws, id) EXCEPT !.state = Arr(<<"DONE", "green">>)]
      r2 == [r1 EXCEPT !.done = TRUE]
  IN Put(ws, id, [r2 EXCEPT !.error = FirstError(r2.error, error)])

\* WORKER_RESET keeping the accumulated output of an existing record
WorkerResetHandler_KeepOutput(ws, id) ==
  Put(ws, id,
      IF Has(ws, id)
      THEN [WORKER_BASE_STATE EXCEPT !.output = Get(ws, id).output]
      ELSE WORKER_BASE_STATE)

WorkerResetHandler(ws, id) == Put(ws, id, WORKER_BASE_STATE)

\* the console keeping only the newest entry
ConsolePush_Replace(co, args) == <<args>>

ConsolePush(co, args) == Append(co, args)

\* ------------------------------------------------------ initial state ---
InitWith(list) ==
  /\ plugins = list
  /\ port = Undefined
  /\ hostname = Undefined
  /\ protocol = Str("")
  /\ startTimeMs = Undefined
  /\ ips = <<>>
  /\ consoleOutput = <<>>
  /\ installOutput = <<>>
  /\ isInstalling = FALSE
  /\ allWorkerStates = InitWorkers(plugins, <<>>)
  /\ allFileBuilds = {}
  /\ screen = Painted
  /\ lastEvent = [kind |-> "paint"]
  /\ renders = 1
  /\ threw = FALSE
  /\ nEvents = 0
  /\ prev = [workers |-> <<>>, builds |-> {}, console |-> <<>>,
             server |-> <<Undefined, Undefined, Undefined, Str(""), <<>>>>]
  /\ lastBuild = <<>>
  /\ insertOrder = plugins
  /\ completed = {}
  /\ serverStarts = <<>>

Init == \E list \in PluginLists : InitWith(list)

\* ------------------------------------------------------------ actions ---
serverVars == <<port, hostname, protocol, startTimeMs, ips>>
installVars == <<installOutput, isInstalling>>

\* the bus still has an event to emit
CanEmit == nEvents < MaxEvents

\* the display state a handler starts from
Snapshot ==
  [workers |-> allWorkerStates, builds |-> allFileBuilds,
   console |-> consoleOutput,
   server |-> <<startTimeMs, hostname, port, protocol, ips>>]

\* insertOrder after a handler run: the id the run made a record for, if
\* any, is the newest
Created ==
  LET new == Keys(allWorkerStates') \ Keys(allWorkerStates)
  IN IF new = {} THEN insertOrder
     ELSE Append(insertOrder, CHOOSE k \in new : TRUE)

\* bookkeeping of a handler run that reached its repaint() call
Handled(kind, payload) ==
  /\ lastEvent' = [kind |-> kind, payload |-> payload]
  /\ renders' = 1
  /\ threw' = FALSE
  /\ nEvents' = nEvents + 1
  /\ prev' = Snapshot
  /\ screen' = Painted'
  /\ insertOrder' = Created
  /\ completed' =
       IF kind = paintEvent.WORKER_COMPLETE THEN completed \cup {payload.id}
       ELSE IF kind = paintEvent.WORKER_RESET THEN completed \ {payload.id}
       ELSE completed
  /\ UNCHANGED plugins

\* bookkeeping of a handler run that threw before its repaint() call
Thrown(kind, payload) ==
  /\ lastEvent' = [kind |-> kind, payload |-> payload]
  /\ renders' = 0
  /\ threw' = TRUE
  /\ nEvents' = nEvents + 1
  /\ prev' = Snapshot
  /\ UNCHANGED <<screen, plugins, insertOrder, completed>>

BuildFile(id, isBuilding) ==
  /\ CanEmit
  /\ allFileBuilds' = BuildFileHandler(allFileBuilds, id, isBuilding)
  /\ lastBuild' =
       [q \in DOMAIN lastBuild \cup {Relative(cwd, id)} |->
          IF q = Relative(cwd, id) THEN isBuilding ELSE lastBuild[q]]
  /\ UNCHANGED <<serverVars, installVars, consoleOutput, allWorkerStates,
                 serverStarts>>
  /\ Handled(paintEvent.BUILD_FILE, [id |-> id, isBuilding |-> isBuilding])

WorkerMsg(id, msg) ==
  /\ CanEmit
  /\ allWorkerStates' = WorkerMsgHandler(allWorkerStates, id, msg)
  /\ UNCHANGED <<serverVars, installVars, consoleOutput, allFileBuilds,
                 lastBuild, serverStarts>>
  /\ Handled(paintEvent.WORKER_MSG, [id |-> id, msg |-> msg])

WorkerUpdate(id, state) ==
  /\ CanEmit
  /\ allWorkerStates' = WorkerUpdateHandler(allWorkerStates, id, state)
  /\ UNCHANGED <<serverVars, installVars, consoleOutput, allFileBuilds,
                 lastBuild, serverStarts>>
  /\ Handled(paintEvent.WORKER_UPDATE, [id |-> id, state |-> state])

\* allWorkerStates[id] is undefined for an id without a record: the first
\* assignment of the handler throws a TypeError and nothing else runs
WorkerComplete(id, error) ==
  \/ /\ CanEmit
     /\ Has(allWorkerStates, id)
     /\ allWorkerStates' = WorkerCompleteHandler(allWorkerStates, id, error)
     /\ UNCHANGED <<serverVars, installVars, consoleOutput, allFileBuilds,
                    lastBuild, serverStarts>>
     /\ Handled(paintEvent.WORKER_COMPLETE, [id |-> id, error |-> error])
  \/ /\ CanEmit
     /\ ~Has(allWorkerStates, id)
     /\ UNCHANGED <<serverVars, installVars, consoleOutput, allFileBuilds,
                    lastBuild, serverStarts, allWorkerStates>>
     /\ Thrown(paintEvent.WORKER_COMPLETE, [id |-> id, error |-> error])

WorkerReset(id) ==
  /\ CanEmit
  /\ allWorkerStates' = WorkerResetHandler(allWorkerStates, id)
  /\ UNCHANGED <<serverVars, installVars, consoleOutput, allFileBuilds,
                 lastBuild, serverStarts>>
  /\ Handled(paintEvent.WORKER_RESET, [id |-> id])

Log(kind, args) ==
  /\ CanEmit
  /\ consoleOutput' = ConsolePush(consoleOutput, args)
  /\ UNCHANGED <<serverVars, installVars, allWorkerStates, allFileBuilds,
                 lastBuild, serverStarts>>
  /\ Handled(kind, [args |-> args])

Info(args) == Log(paintEvent.INFO, args)
Warn(args) == Log(paintEvent.WARN, args)
Error(args) == Log(paintEvent.ERROR, args)

\* SERVER_START leaving the addresses of an earlier start in place
ServerStart_KeepIps(info) ==
  /\ CanEmit
  /\ startTimeMs' = info.startTimeMs
  /\ hostname' = info.hostname
  /\ port' = info.port
  /\ protocol' = info.protocol
  /\ ips' = IF ips = <<>> THEN info.ips ELSE ips
  /\ serverStarts' = <<info>>
  /\ UNCHANGED <<installVars, consoleOutput, allWorkerStates, allFileBuilds,
                 lastBuild>>
  /\ Handled(paintEvent.SERVER_START, info)

ServerStart(info) ==
  /\ CanEmit
  /\ startTimeMs' = info.startTimeMs
  /\ hostname' = info.hostname
  /\ port' = info.port
  /\ protocol' = info.protocol
  /\ ips' = info.ips
  /\ serverStarts' = <<info>>
  /\ UNCHANGED <<installVars, consoleOutput, allWorkerStates, allFileBuilds,
                 lastBuild>>
  /\ Handled(paintEvent.SERVER_START, info)

EmitBuildFile ==
  \E id \in BuildIds, isBuilding \in BOOLEAN : BuildFile(id, isBuilding)

EmitWorkerMsg == \E id \in WorkerIds, msg \in Msgs : WorkerMsg(id, msg)

EmitWorkerUpdate ==
  \E id \in WorkerIds, state \in UpdateStates : WorkerUpdate(id, state)

EmitWorkerComplete ==
  \E id \in WorkerIds, error \in CompleteErrors : WorkerComplete(id, error)

EmitWorkerReset == \E id \in WorkerIds : WorkerReset(id)

EmitInfo == \E args \in LogArgs : Info(args)

EmitWarn == \E args \in LogArgs : Warn(args)

EmitError == \E args \in LogArgs : Error(args)

EmitServerStart == \E info \in ServerInfos : ServerStart(info)

Next ==
  \/ EmitBuildFile
  \/ EmitWorkerMsg
  \/ EmitWorkerUpdate
  \/ EmitWorkerComplete
  \/ EmitWorkerReset
  \/ EmitInfo
  \/ EmitWarn
  \/ EmitError
  \/ EmitServerStart

Spec == Init /\ [][Next]_vars

\* worker ids and plugins with keys that are canonical array indices
KeyIds == {"tsc", "2", "1"}

KeyPlugins == <<"tsc", "2">>

InitKeys == InitWith(KeyPlugins)

EmitKeyWorkerMsg == \E id \in KeyIds, msg \in Msgs : WorkerMsg(id, msg)

EmitKeyWorkerUpdate ==
  \E id \in KeyIds, state \in UpdateStates : WorkerUpdate(id, state)

EmitKeyWorkerComplete ==
  \E id \in KeyIds, error \in CompleteErrors : WorkerComplete(id, error)

EmitKeyWorkerReset == \E id \in KeyIds : WorkerReset(id)

NextKeys ==
  \/ EmitKeyWorkerMsg
  \/ EmitKeyWorkerUpdate
  \/ EmitKeyWorkerComplete
  \/ EmitKeyWorkerReset

SpecKeys == InitKeys /\ [][NextKeys]_vars

\* ============================================================ claims ===
Drawn(t) == \E i \in DOMAIN screen : screen[i].t = t

SectionDrawn(w) ==
  \E i \in DOMAIN screen : screen[i].t = "workerHeader" /\ screen[i].of = w

IsPrefix(a, b) == Len(a) <= Len(b) /\ SubSeq(b, 1, Len(a)) = a

LogKinds == {paintEvent.INFO, paintEvent.WARN, paintEvent.ERROR}

\* the last SERVER_START carried startTimeMs > 0, port > 0 and a protocol
StartedByLastServerStart ==
  /\ serverStarts # <<>>
  /\ serverStarts[1].startTimeMs.type = "number"
  /\ serverStarts[1].startTimeMs.n > 0
  /\ serverStarts[1].port.type = "number"
  /\ serverStarts[1].port.n > 0
  /\ serverStarts[1].protocol.s # ""

\* the ready badge text for the last SERVER_START: hostname:port > ips[0]
ReadyText ==
  <<" SNOWPACK ", " READY ", " ", serverStarts[1].hostname.s, ":",
    ToString(serverStarts[1].port.n), " > ", serverStarts[1].ips[1]>>

\* C1: every event that has been processed caused exactly one render, made
\* after the event's whole mutation (the screen is the render of the current
\* display state) and the handler did not fail.
C1_OneRenderPerEvent ==
  lastEvent.kind # "paint" =>
    /\ renders = 1
    /\ ~threw
    /\ screen = Painted

\* C2: a non-null error of worker w is kept by every event except a
\* WORKER_RESET for w; in particular a later WORKER_COMPLETE for w, with
\* error null or with another error, leaves the first error in place.
C2_StickyFirstError ==
  \A w \in WorkerIds :
    (/\ lastEvent.kind # "paint"
     /\ Has(prev.workers, w)
     /\ Get(prev.workers, w).error # Null
     /\ ~(lastEvent.kind = paintEvent.WORKER_RESET /\ lastEvent.payload.id = w))
    => /\ Has(allWorkerStates, w)
       /\ Get(allWorkerStates, w).error = Get(prev.workers, w).error

\* a WORKER_COMPLETE carrying another error than the stored one was handled
C2_Witness ==
  /\ lastEvent.kind = paintEvent.WORKER_COMPLETE
  /\ ~threw
  /\ Has(prev.workers, lastEvent.payload.id)
  /\ Get(prev.workers, lastEvent.payload.id).error = Err("E1")
  /\ lastEvent.payload.error \in {Null, Err("E2")}
  /\ Get(allWorkerStates, lastEvent.payload.id).error = Err("E1")

\* C3: after WORKER_RESET on w the record of w is the zero-value record
\* (output empty, done false, error null, state null), whatever came before,
\* and the render that follows draws no section for w.
C3_ResetGivesZeroRecord ==
  lastEvent.kind = paintEvent.WORKER_RESET =>
    /\ Has(allWorkerStates, lastEvent.payload.id)
    /\ Get(allWorkerStates, lastEvent.payload.id) =
         [done |-> FALSE, error |-> Null, state |-> Null, output |-> <<>>]
    /\ renders = 1
    /\ screen = Painted
    /\ ~SectionDrawn(lastEvent.payload.id)
    /\ \A i \in DOMAIN screen : screen[i].of # lastEvent.payload.id

\* a reset of a worker that had output, a completion and an error
C3_Witness ==
  /\ lastEvent.kind = paintEvent.WORKER_RESET
  /\ Has(prev.workers, lastEvent.payload.id)
  /\ Get(prev.workers, lastEvent.payload.id).output # <<>>
  /\ Get(prev.workers, lastEvent.payload.id).done
  /\ Get(prev.workers, lastEvent.payload.id).error # Null

\* C4: a path is in BuildSet iff the last BUILD_FILE for that path had
\* isBuilding=true; a start for a member and a stop for a non-member leave
\* BuildSet unchanged.
C4_BuildSetIdempotent ==
  /\ allFileBuilds = {q \in DOMAIN lastBuild : lastBuild[q]}
  /\ lastEvent.kind = paintEvent.BUILD_FILE =>
       LET q == Relative(cwd, lastEvent.payload.id)
       IN /\ (lastEvent.payload.isBuilding /\ q \in prev.builds
                => allFileBuilds = prev.builds)
          /\ (~lastEvent.payload.isBuilding /\ q \notin prev.builds
                => allFileBuilds = prev.builds)
          /\ allFileBuilds \in
               {prev.builds, prev.builds \cup {q}, prev.builds \ {q}}

\* a second start for a path that is already a member, under another spelling
C4_Witness ==
  /\ lastEvent.kind = paintEvent.BUILD_FILE
  /\ lastEvent.payload.isBuilding
  /\ lastEvent.payload.id = [abs |-> FALSE, segs |-> <<"a.js">>]
  /\ prev.builds = {<<"a.js">>, <<"src", "a.ts">>}
  /\ allFileBuilds = prev.builds

\* C5: across every event the old ConsoleLog is a prefix of the new one; an
\* INFO, WARN or ERROR event appends exactly its args as the last entry and
\* no other event changes ConsoleLog.
C5_ConsoleAppendOnly ==
  /\ IsPrefix(prev.console, consoleOutput)
  /\ lastEvent.kind \in LogKinds
       => consoleOutput = prev.console \o <<lastEvent.payload.args>>
  /\ lastEvent.kind \notin LogKinds => consoleOutput = prev.console

\* a log event appended to a console that already had an entry
C5_Witness ==
  /\ lastEvent.kind \in LogKinds
  /\ Len(prev.console) = 1
  /\ Len(consoleOutput) = 2
  /\ consoleOutput[1] # consoleOutput[2]
  /\ consoleOutput[2] = lastEvent.payload.args

\* C6 as stated: loading before any SERVER_START, and the ready badge with
\* hostname:port > ips[0] of the last SERVER_START after one, whatever the
\* payload carried.
C6_ReadyAfterAnyServerStart ==
  /\ serverStarts = <<>> => Drawn("loading") /\ ~Drawn("ready")
  /\ serverStarts # <<>> =>
       /\ ~Drawn("loading")
       /\ \E i \in DOMAIN screen :
            screen[i].t = "ready" /\ screen[i].v = ReadyText

\* C6 amended: the render shows the ready badge with hostname:port > ips[0]
\* of the last SERVER_START iff that event carried startTimeMs > 0, port > 0
\* and a non-empty protocol; every other render, and every render before the
\* first SERVER_START, shows the loading badge.
C6_ReadyIffStarted ==
  /\ StartedByLastServerStart =>
       /\ ~Drawn("loading")
       /\ \E i \in DOMAIN screen :
            screen[i].t = "ready" /\ screen[i].v = ReadyText
       /\ Cardinality({i \in DOMAIN screen : screen[i].t = "ready"}) = 1
  /\ ~StartedByLastServerStart =>
       /\ ~Drawn("ready")
       /\ Cardinality({i \in DOMAIN screen : screen[i].t = "loading"}) = 1

\* a second SERVER_START replaced the address shown by the ready badge
C6_Witness ==
  /\ lastEvent.kind = paintEvent.SERVER_START
  /\ lastEvent.payload = ServerInfoB
  /\ nEvents >= 2
  /\ \E i \in DOMAIN screen :
       /\ screen[i].t = "ready"
       /\ screen[i].v = <<" SNOWPACK ", " READY ", " ", "example.test", ":",
                          "3000", " > ", "10.0.0.1">>

\* the payload of the scenario, without startTimeMs, gives the loading badge
C6_ScenarioWitness ==
  /\ lastEvent.kind = paintEvent.SERVER_START
  /\ lastEvent.payload = [ServerInfoA EXCEPT !.startTimeMs = Undefined]
  /\ Drawn("loading")

\* C7 as stated: in every render made once a SERVER_START has been
\* processed, Building is drawn iff BuildSet is non-empty, before the badge.
C7_BuildingWhenServerInfoSet ==
  serverStarts # <<>> =>
    /\ Drawn("building") <=> allFileBuilds # {}
    /\ \A i \in DOMAIN screen :
         screen[i].t = "building" =>
           i < Len(screen) /\ screen[i + 1].t = "ready"

\* C7 amended: in every render made while the last SERVER_START carried
\* startTimeMs > 0, port > 0 and a non-empty protocol, Building is drawn iff
\* BuildSet is non-empty and is the write just before the ready badge; in
\* every other render Building is not drawn.
C7_BuildingIffStartedAndBuilding ==
  /\ StartedByLastServerStart =>
       /\ Drawn("building") <=> allFileBuilds # {}
       /\ \A i \in DOMAIN screen :
            screen[i].t = "building" =>
              i < Len(screen) /\ screen[i + 1].t = "ready"
  /\ ~StartedByLastServerStart => ~Drawn("building")

\* the stop of the only path in progress removed the indicator
C7_Witness ==
  /\ StartedByLastServerStart
  /\ lastEvent.kind = paintEvent.BUILD_FILE
  /\ ~lastEvent.payload.isBuilding
  /\ prev.builds # {}
  /\ allFileBuilds = {}
  /\ ~Drawn("building")
  /\ Drawn("ready")

\* BUILD_FILE first, SERVER_START second: the indicator is drawn
C7_WitnessBuildFirst ==
  /\ lastEvent.kind = paintEvent.SERVER_START
  /\ Cardinality(allFileBuilds) = 1
  /\ Drawn("building")

\* C8: a worker's section is drawn iff its output is non-empty and does not
\* contain the sentinel of its kind ("Found 0 errors." for tsc, "found no
\* errors" for svelte-check, none for another id).
C8_SectionIffOutputShown ==
  \A w \in WorkerIds :
    SectionDrawn(w) <=>
      /\ Has(allWorkerStates, w)
      /\ Get(allWorkerStates, w).output # <<>>
      /\ ~(w = "tsc" /\ Includes(Get(allWorkerStates, w).output,
                                 <<"Found 0", " ", "errors", ".">>))
      /\ ~(w = "svelte-check" /\ Includes(Get(allWorkerStates, w).output,
                                          <<"found no", " ", "errors">>))

\* "Found 0 errors." arrived for tsc after other output: no section for tsc
C8_Witness ==
  /\ lastEvent.kind = paintEvent.WORKER_MSG
  /\ lastEvent.payload = [id |-> "tsc", msg |-> <<"Found 0", " ", "errors", ".">>]
  /\ Len(Get(allWorkerStates, "tsc").output) > 4
  /\ ~SectionDrawn("tsc")

\* C9: a WORKER_UPDATE without a state leaves the state of an existing
\* worker unchanged, and one with a state sets exactly that state.
C9_UpdateOnlyWhenStatePresent ==
  (lastEvent.kind = paintEvent.WORKER_UPDATE) =>
    /\ (lastEvent.payload.state = Undefined
        /\ Has(prev.workers, lastEvent.payload.id))
       => Get(allWorkerStates, lastEvent.payload.id).state =
            Get(prev.workers, lastEvent.payload.id).state
    /\ lastEvent.payload.state # Undefined
       => Get(allWorkerStates, lastEvent.payload.id).state =
            lastEvent.payload.state

\* C10: WORKER_COMPLETE on an id without a record does not fail: it creates
\* the record with state ("DONE","green"), done true and the payload's
\* error, and renders.
C10_CompleteCreatesRecord ==
  (/\ lastEvent.kind = paintEvent.WORKER_COMPLETE
   /\ ~Has(prev.workers, lastEvent.payload.id))
  => /\ ~threw
     /\ renders = 1
     /\ Has(allWorkerStates, lastEvent.payload.id)
     /\ Get(allWorkerStates, lastEvent.payload.id) =
          [done |-> TRUE, error |-> lastEvent.payload.error,
           state |-> Arr(<<"DONE", "green">>), output |-> <<>>]

\* ---------------------------------------------------------------------
WorkerEvents ==
  {paintEvent.WORKER_MSG, paintEvent.WORKER_UPDATE,
   paintEvent.WORKER_COMPLETE, paintEvent.WORKER_RESET}

ZeroRecord == [done |-> FALSE, error |-> Null, state |-> Null, output |-> <<>>]

KeySeq(ws) == [i \in DOMAIN ws |-> ws[i].key]

\* the record of w before the last event, the zero-value record if it had none
Before(w) == IF Has(prev.workers, w) THEN Get(prev.workers, w) ELSE ZeroRecord

C12_InitialRender ==
  lastEvent.kind = "paint" =>
    /\ nEvents = 0
    /\ renders = 1
    /\ consoleOutput = <<>>
    /\ allFileBuilds = {}
    /\ serverStarts = <<>>
    /\ KeySeq(allWorkerStates) = plugins
    /\ \A i \in DOMAIN allWorkerStates : allWorkerStates[i].val = ZeroRecord
    /\ Len(screen) = 2
    /\ screen[1].t = "clear"
    /\ screen[2].t = "loading"
    /\ screen[2].v = <<" SNOWPACK ", " LOADING ">>

\* the dashboard right after construction, with its plugins registered
C12_Witness ==
  /\ lastEvent.kind = "paint"
  /\ Len(allWorkerStates) = 2
  /\ Drawn("loading")

\* C13: the header of a drawn worker section is red iff the worker's error
\* is set (non-null).
C13_RedIffError ==
  \A i \in DOMAIN screen :
    screen[i].t = "workerHeader" =>
      (screen[i].color = "red"
         <=> Get(allWorkerStates, screen[i].of).error # Null)

\* C14: the label of a drawn section header is the display name for an id
\* in the lookup (TypeScript for tsc) and the raw id for any other id.
C14_LabelFallsBackToId ==
  \A i \in DOMAIN screen :
    screen[i].t = "workerHeader" =>
      IF screen[i].of = "tsc"
      THEN screen[i].v = <<"# ", "TypeScript", "\n\n">>
      ELSE screen[i].v \in {<<"# ", screen[i].of, "\n\n">>,
                            <<screen[i].of, "\n\n">>}

\* C15: for every worker w and every event except a WORKER_RESET on w, the
\* output of w before the event is a prefix of its output after; WORKER_MSG
\* makes the output the old output followed by msg; WORKER_UPDATE and
\* WORKER_COMPLETE leave every output unchanged.
C15_OutputAppendOnly ==
  /\ \A w \in Keys(prev.workers) :
       ~(lastEvent.kind = paintEvent.WORKER_RESET /\ lastEvent.payload.id = w)
       => /\ Has(allWorkerStates, w)
          /\ IsPrefix(Get(prev.workers, w).output,
                      Get(allWorkerStates, w).output)
  /\ lastEvent.kind = paintEvent.WORKER_MSG =>
       Get(allWorkerStates, lastEvent.payload.id).output =
         Before(lastEvent.payload.id).output \o lastEvent.payload.msg
  /\ lastEvent.kind \in {paintEvent.WORKER_UPDATE, paintEvent.WORKER_COMPLETE}
       => \A w \in Keys(allWorkerStates) :
            Get(allWorkerStates, w).output = Before(w).output

\* a second, different message arrived for a worker that had output
C15_Witness ==
  /\ lastEvent.kind = paintEvent.WORKER_MSG
  /\ Has(prev.workers, lastEvent.payload.id)
  /\ Get(prev.workers, lastEvent.payload.id).output = <<"x", "\n">>
  /\ lastEvent.payload.msg = <<"found no", " ", "errors">>
  /\ Get(allWorkerStates, lastEvent.payload.id).output =
       <<"x", "\n", "found no", " ", "errors">>

\* C16: after a SERVER_START the five server fields are the payload's
\* fields, none is left from an earlier start; no other event changes them.
C16_ServerInfoWholesale ==
  /\ lastEvent.kind = paintEvent.SERVER_START =>
       /\ startTimeMs = lastEvent.payload.startTimeMs
       /\ hostname = lastEvent.payload.hostname
       /\ port = lastEvent.payload.port
       /\ protocol = lastEvent.payload.protocol
       /\ ips = lastEvent.payload.ips
  /\ lastEvent.kind # paintEvent.SERVER_START =>
       <<startTimeMs, hostname, port, protocol, ips>> = prev.server

\* a SERVER_START replaced an earlier one that differed in all five fields
C16_Witness ==
  /\ lastEvent.kind = paintEvent.SERVER_START
  /\ lastEvent.payload = ServerInfoB
  /\ prev.server = <<Num(1000), Str("localhost"), Num(8080), Str("http://"),
                     <<"192.168.1.5">>>>
  /\ ips = <<"10.0.0.1", "192.168.1.5">>

\* position of id in the order the records were created
InsertRank(id) == CHOOSE i \in DOMAIN insertOrder : insertOrder[i] = id

\* C17: worker sections are drawn in insertion order, the plugins first in
\* list order and every other id in the order of its first reference, for
\* every set of worker ids.
C17_SectionsInInsertionOrder ==
  \A i, j \in DOMAIN screen :
    (/\ i < j
     /\ screen[i].t = "workerHeader"
     /\ screen[j].t = "workerHeader")
    => InsertRank(screen[i].of) < InsertRank(screen[j].of)

\* C18: an event changes only its own part of the model: BUILD_FILE the
\* BuildSet, INFO/WARN/ERROR the ConsoleLog, SERVER_START the ServerInfo, a
\* worker event on w the record of w; the records of the other workers keep
\* their values and positions, and a record made by a reset or a first
\* reference starts from the unchanged zero-value template.
C18_FrameOfEachEvent ==
  lastEvent.kind # "paint" =>
    /\ lastEvent.kind # paintEvent.BUILD_FILE => allFileBuilds = prev.builds
    /\ lastEvent.kind \notin LogKinds => consoleOutput = prev.console
    /\ lastEvent.kind # paintEvent.SERVER_START =>
         <<startTimeMs, hostname, port, protocol, ips>> = prev.server
    /\ lastEvent.kind \notin WorkerEvents => allWorkerStates = prev.workers
    /\ ~isInstalling /\ installOutput = <<>>
    /\ lastEvent.kind \in WorkerEvents =>
         /\ \A w \in Keys(prev.workers) \ {lastEvent.payload.id} :
              /\ Has(allWorkerStates, w)
              /\ Get(allWorkerStates, w) = Get(prev.workers, w)
         /\ Keys(allWorkerStates) \subseteq
              Keys(prev.workers) \cup {lastEvent.payload.id}
         /\ \A i, j \in DOMAIN prev.workers :
              i < j =>
                \E a, b \in DOMAIN allWorkerStates :
                  /\ a < b
                  /\ allWorkerStates[a].key = prev.workers[i].key
                  /\ allWorkerStates[b].key = prev.workers[j].key
         /\ lastEvent.kind = paintEvent.WORKER_RESET =>
              Get(allWorkerStates, lastEvent.payload.id) = ZeroRecord
         /\ (lastEvent.kind = paintEvent.WORKER_MSG
             /\ ~Has(prev.workers, lastEvent.payload.id))
            => Get(allWorkerStates, lastEvent.payload.id) =
                 [ZeroRecord EXCEPT !.output = lastEvent.payload.msg]

\* a reset of one worker while another worker had output and a completion
C18_Witness ==
  /\ lastEvent.kind = paintEvent.WORKER_RESET
  /\ \E w \in Keys(prev.workers) \ {lastEvent.payload.id} :
       /\ Get(allWorkerStates, w).output # <<>>
       /\ Get(allWorkerStates, w).done

\* C19: done of w is true iff a WORKER_COMPLETE for w was processed since
\* the record of w was created or last reset; a non-null error implies done;
\* a WORKER_UPDATE keeps done as it was.
C19_DoneIffCompleted ==
  /\ \A w \in Keys(allWorkerStates) :
       /\ Get(allWorkerStates, w).done <=> w \in completed
       /\ Get(allWorkerStates, w).error # Null => Get(allWorkerStates, w).done
  /\ completed \subseteq Keys(allWorkerStates)
  /\ lastEvent.kind = paintEvent.WORKER_UPDATE =>
       Get(allWorkerStates, lastEvent.payload.id).done =
         Before(lastEvent.payload.id).done

\* a WORKER_UPDATE replaced the DONE state of a completed worker
C19_Witness ==
  /\ lastEvent.kind = paintEvent.WORKER_UPDATE
  /\ lastEvent.payload.state = Arr(<<"RUNNING", "yellow">>)
  /\ Before(lastEvent.payload.id).done
  /\ Before(lastEvent.payload.id).state = Arr(<<"DONE", "green">>)
  /\ Get(allWorkerStates, lastEvent.payload.id).state =
       Arr(<<"RUNNING", "yellow">>)
  /\ Get(allWorkerStates, lastEvent.payload.id).done

\* C20: installing is never set and installOutput stays empty, so no render
\* draws the install section and every render ends with the status bar.
C20_InstallNeverDrawn ==
  /\ isInstalling = FALSE
  /\ installOutput = <<>>
  /\ ~Drawn("installHeader")
  /\ ~Drawn("installBody")
  /\ screen[Len(screen)].t \in {"ready", "loading"}

\* a render after events of several kinds that ends with the ready badge
C20_Witness ==
  /\ nEvents >= 3
  /\ consoleOutput # <<>>
  /\ \E i \in DOMAIN allWorkerStates : allWorkerStates[i].val.output # <<>>
  /\ screen[Len(screen)].t = "ready"

====
